---- MODULE Spec2Model ----
(***************************************************************************)
(* Conway's Game of Life on a toroidal grid (src/src/engine.rs) and its    *)
(* driver (src/src/main.rs).  A GameMatrix is a dense rows x columns       *)
(* matrix of cell states; GameOfLife owns two of them, previous and        *)
(* current, and tick() swaps them and recomputes current from previous.    *)
(***************************************************************************)
EXTENDS Integers, Sequences, FiniteSets, TLC

\* ------------------------------------------------------------------ bounds
\* Largest number of cells (rows * columns) of a grid of Spec, SpecSteps,
\* SpecPure and SpecCount.
MaxGridCells == 9
\* Ticks taken after the last external mutation of the simulation.
MaxTicks == 3
\* Largest dimension handed to get_offset / get_neighbor_cells in SpecPure.
MaxCells == 10
\* Largest grid of the still-life specification SpecBlock.
MaxBlockRows == 5
MaxBlockColumns == 5
\* Largest number of cells of a grid of SpecAccess and of the paired ticks
\* of SpecTwin; the coordinates of SpecAccess range over 0 .. MaxAccessCells,
\* beyond every dimension.
MaxAccessCells == 4
\* Most calls in a row of one observer (get_state, get_next_state) with the
\* same arguments in SpecAccess.
MaxRepeats == 2
\* Largest number of cells of the terminal of SpecMain.
MaxMainCells == 6

VARIABLES
    previous,   \* GameOfLife.previous
    current,    \* GameOfLife.current
    failure,    \* "none", or the panic that ended the program
    args,       \* history: the (rows, columns) handed to GameOfLife::new
    seed,       \* history: current as of the last external mutation
    ticks,      \* history: tick() calls since the last external mutation
    seeded,     \* history: set_state has been called since construction
    cleared,    \* history: kill_em_all was called and no set_state since
    call,       \* the last call of a free-standing or pure function
    paused,     \* main's local `paused`
    pc          \* where main is: "seed", "loop" or "done"; "none" without main

vars == <<previous, current, failure, args, seed, ticks, seeded, cleared, call,
          paused, pc>>

\* ------------------------------------------------------------------- types
\* enum CellState
CellState == {"Alive", "Dead"}

\* The index set of a rows x columns DMatrix.
Cells(rows, columns) == (0 .. rows - 1) \X (0 .. columns - 1)

\* usize is an unsigned machine word: `x as usize` reinterprets a negative
\* isize as a value at the top of the unsigned range.  The range is scaled
\* to 2^16 (TLC integers are 32 bits wide); every dimension of the model is
\* far below it, so a reinterpreted negative is out of range of every grid.
UsizeRange == 2 ^ 16

as_usize(x) == IF x >= 0 THEN x ELSE x + UsizeRange

\* Rust's % on signed integers truncates toward zero: the result has the
\* sign of the dividend.
rem(a, b) == IF a >= 0 THEN a % b ELSE 0 - ((0 - a) % b)

\* ---------------------------------------------------------- neighbor geometry
get_offset_no_bias(position, offset, cells) ==
    as_usize(rem(position + offset, cells))

get_offset_saturating(position, offset, cells) ==
    IF position + offset < 0 THEN 0
    ELSE IF position + offset >= cells THEN cells - 1
    ELSE position + offset

\* fn get_offset(position, offset, cells)
get_offset(position, offset, cells) ==
    as_usize(rem((position + offset) + cells, cells))

\* The ranges -1..=1 of the two loops of get_neighbor_cells.
OffsetRange == <<-1, 0, 1>>

RECURSIVE neighbor_columns(_, _, _, _, _)
neighbor_columns(offsets, cell, shape, row_offset, j) ==
    IF j > Len(OffsetRange) THEN offsets
    ELSE LET column_offset == OffsetRange[j]
             pushed == IF ~(row_offset = 0 /\ column_offset = 0)
                       THEN Append(offsets,
                                   <<get_offset(cell[1], row_offset, shape[1]),
                                     get_offset(cell[2], column_offset, shape[2])>>)
                       ELSE offsets
         IN neighbor_columns(pushed, cell, shape, row_offset, j + 1)

RECURSIVE neighbor_rows(_, _, _, _)
neighbor_rows(offsets, cell, shape, i) ==
    IF i > Len(OffsetRange) THEN offsets
    ELSE neighbor_rows(neighbor_columns(offsets, cell, shape, OffsetRange[i], 1),
                       cell, shape, i + 1)

get_neighbor_cells_column_major(cell, shape) ==
    LET t == neighbor_rows(<<>>, <<cell[2], cell[1]>>, <<shape[2], shape[1]>>, 1)
    IN [k \in DOMAIN t |-> <<t[k][2], t[k][1]>>]

\* fn get_neighbor_cells(cell, shape) -> Vec<Cell>
get_neighbor_cells(cell, shape) == neighbor_rows(<<>>, cell, shape, 1)

\* ------------------------------------------------------------------ GameMatrix
GameMatrix_new_alive(rows, columns) ==
    [rows |-> rows, columns |-> columns,
     data |-> [cell \in Cells(rows, columns) |-> "Alive"]]

\* GameMatrix::new: DMatrix::from_element(rows, columns, CellState::Dead)
GameMatrix_new(rows, columns) ==
    [rows |-> rows, columns |-> columns,
     data |-> [cell \in Cells(rows, columns) |-> "Dead"]]

\* GameMatrix::shape
GameMatrix_shape(matrix) == <<matrix.rows, matrix.columns>>

\* Indexing a DMatrix with a (row, column) pair panics unless both are in
\* range.
InRange(matrix, cell) == cell[1] < matrix.rows /\ cell[2] < matrix.columns

get_state_wrapping(matrix, cell) ==
    matrix.data[<<cell[1] % matrix.rows, cell[2] % matrix.columns>>]

\* GameMatrix::get_state; "Panic" stands for the index panic.
get_state(matrix, cell) ==
    IF InRange(matrix, cell) THEN matrix.data[cell] ELSE "Panic"

\* GameMatrix::set_state on an in-range cell (the caller checks InRange).
set_state(matrix, cell, state) == [matrix EXCEPT !.data[cell] = state]

neighbor_states_distinct(matrix, cell) ==
    LET neighbors == get_neighbor_cells(cell, GameMatrix_shape(matrix))
    IN [k \in DOMAIN neighbors |->
           IF neighbors[k] = cell \/ \E j \in 1 .. k - 1 : neighbors[j] = neighbors[k]
           THEN "Dead"
           ELSE get_state(matrix, neighbors[k])]

\* The states get_next_state reads: those of the neighbor cells, in order.
neighbor_states(matrix, cell) ==
    LET neighbors == get_neighbor_cells(cell, GameMatrix_shape(matrix))
    IN [k \in DOMAIN neighbors |-> get_state(matrix, neighbors[k])]

\* .filter(|state| **state == CellState::Alive).count()
count_alive(states) == Cardinality({k \in DOMAIN states : states[k] = "Alive"})

has_panic(states) == \E k \in DOMAIN states : states[k] = "Panic"

next_state_survive_on_two(own, states) ==
    IF own = "Panic" \/ has_panic(states) THEN "Panic"
    ELSE IF own = "Alive"
         THEN (IF count_alive(states) = 2 THEN "Alive" ELSE "Dead")
         ELSE (IF count_alive(states) = 3 THEN "Alive" ELSE "Dead")

next_state_survive_on_three(own, states) ==
    IF own = "Panic" \/ has_panic(states) THEN "Panic"
    ELSE IF count_alive(states) = 3 THEN "Alive" ELSE "Dead"

\* The two match expressions of get_next_state, on the cell's own state and
\* the states of its neighbors.
next_state(own, states) ==
    IF own = "Panic" \/ has_panic(states) THEN "Panic"
    ELSE IF own = "Alive"
         THEN (IF count_alive(states) \in 2 .. 3 THEN "Alive" ELSE "Dead")
         ELSE (IF count_alive(states) = 3 THEN "Alive" ELSE "Dead")

\* GameMatrix::get_next_state
get_next_state(matrix, cell) ==
    next_state(get_state(matrix, cell), neighbor_states(matrix, cell))

get_alive_neighbor_count_with_self(matrix, cell) ==
    LET cells == get_neighbor_cells(cell, GameMatrix_shape(matrix))
    IN Cardinality({k \in DOMAIN cells : get_state(matrix, cells[k]) = "Alive"})
       + (IF get_state(matrix, cell) = "Alive" THEN 1 ELSE 0)

\* fn get_alive_neighbor_count(matrix, cell) -> usize
get_alive_neighbor_count(matrix, cell) ==
    LET cells == get_neighbor_cells(cell, GameMatrix_shape(matrix))
    IN Cardinality({k \in DOMAIN cells : get_state(matrix, cells[k]) = "Alive"})

\* GameMatrix::kill_em_all
GameMatrix_kill_em_all(matrix) ==
    [matrix EXCEPT !.data = [cell \in DOMAIN matrix.data |-> "Dead"]]

\* ------------------------------------------------------------------ GameOfLife
GameOfLife_new_transposed(rows, columns) ==
    [previous |-> GameMatrix_new(columns, rows),
     current |-> GameMatrix_new(rows, columns)]

\* GameOfLife::new
GameOfLife_new(rows, columns) ==
    [previous |-> GameMatrix_new(rows, columns),
     current |-> GameMatrix_new(rows, columns)]

\* GameOfLife::shape
GameOfLife_shape(self) == GameMatrix_shape(self.current)

\* The body of the two loops of tick(): st carries self and the panic, if
\* any, that stopped the loops.
tick_cell_in_place(st, cell, new_state) ==
    IF new_state = "Panic" \/ ~InRange(st.previous, cell)
    THEN [st EXCEPT !.failure = "index out of bounds"]
    ELSE [st EXCEPT !.previous = set_state(st.previous, cell, new_state),
                    !.current = set_state(st.current, cell, new_state)]

\* self.current.set_state(cell, new_state), or the panic of either call.
tick_cell(st, cell, new_state) ==
    IF new_state = "Panic" \/ ~InRange(st.current, cell)
    THEN [st EXCEPT !.failure = "index out of bounds"]
    ELSE [st EXCEPT !.current = set_state(st.current, cell, new_state)]

RECURSIVE tick_columns(_, _, _, _)
tick_columns(st, row, column, columns) ==
    IF column >= columns \/ st.failure # "none" THEN st
    ELSE tick_columns(tick_cell(st, <<row, column>>,
                                get_next_state(st.previous, <<row, column>>)),
                      row, column + 1, columns)

RECURSIVE tick_rows(_, _, _, _)
tick_rows(st, row, rows, columns) ==
    IF row >= rows \/ st.failure # "none" THEN st
    ELSE tick_rows(tick_columns(st, row, 0, columns), row + 1, rows, columns)

tick_without_swap(self) ==
    LET st == [previous |-> self.previous, current |-> self.current,
               failure |-> "none"]
        shape == GameMatrix_shape(st.current)
    IN tick_rows(st, 0, shape[1], shape[2])

\* GameOfLife::tick
tick(self) ==
    LET swapped == [previous |-> self.current, current |-> self.previous,
                    failure |-> "none"]
        shape == GameMatrix_shape(swapped.current)
    IN tick_rows(swapped, 0, shape[1], shape[2])

kill_em_all_current_only(self) ==
    [previous |-> self.previous,
     current |-> GameMatrix_kill_em_all(self.current)]

\* GameOfLife::kill_em_all
kill_em_all(self) ==
    [previous |-> GameMatrix_kill_em_all(self.previous),
     current |-> GameMatrix_kill_em_all(self.current)]

Self == [previous |-> previous, current |-> current]

NoCall == [fn |-> "none"]

\* ------------------------------------------------- the simulation: Spec
\* The shapes of the model: every (rows, columns), zero included, of at
\* most MaxGridCells cells.
Shapes ==
    {s \in (0 .. MaxGridCells) \X (0 .. MaxGridCells) : s[1] * s[2] <= MaxGridCells}

\* The non-empty shapes of at most MaxAccessCells cells.
AccessShapes ==
    {s \in (1 .. MaxAccessCells) \X (1 .. MaxAccessCells) :
        s[1] * s[2] <= MaxAccessCells}

\* let mut game = GameOfLife::new(rows, columns), for any terminal size.
Init ==
    \E s \in Shapes :
        LET rows == s[1]
            columns == s[2]
            game == GameOfLife_new(rows, columns)
        IN /\ previous = game.previous
           /\ current = game.current
           /\ failure = "none"
           /\ args = <<rows, columns>>
           /\ seed = game.current
           /\ ticks = 0
           /\ seeded = FALSE
           /\ cleared = FALSE
           /\ call = NoCall
           /\ paused = FALSE
           /\ pc = "none"

\* The seeding collaborator: game.current_mut().set_state(cell, state) with
\* the cells of its loop over game.shape(), before the first tick.
SetState ==
    /\ failure = "none"
    /\ ticks = 0
    /\ \E cell \in Cells(GameOfLife_shape(Self)[1], GameOfLife_shape(Self)[2]),
          state \in CellState :
          /\ current' = set_state(current, cell, state)
          /\ seed' = current'
    /\ seeded' = TRUE
    /\ cleared' = FALSE
    /\ UNCHANGED <<previous, failure, args, ticks, call, paused, pc>>

\* game.tick()
Tick ==
    /\ failure = "none"
    /\ ticks < MaxTicks
    /\ \E r \in {tick(Self)} :
          /\ previous' = r.previous
          /\ current' = r.current
          /\ failure' = r.failure
    /\ ticks' = ticks + 1
    /\ UNCHANGED <<args, seed, seeded, cleared, call, paused, pc>>

\* game.kill_em_all()
KillEmAll ==
    /\ failure = "none"
    /\ \E r \in {kill_em_all(Self)} :
          /\ previous' = r.previous
          /\ current' = r.current
          /\ seed' = r.current
    /\ ticks' = 0
    /\ cleared' = TRUE
    /\ UNCHANGED <<failure, args, seeded, call, paused, pc>>

Next == SetState \/ Tick \/ KillEmAll

Spec == Init /\ [][Next]_vars

\* ------------------------------------------ the pure functions: SpecPure
\* No simulation is running: an empty one stands in for the unused state.
InitPure ==
    /\ previous = GameMatrix_new(0, 0)
    /\ current = GameMatrix_new(0, 0)
    /\ failure = "none"
    /\ args = <<0, 0>>
    /\ seed = GameMatrix_new(0, 0)
    /\ ticks = 0
    /\ seeded = FALSE
    /\ cleared = FALSE
    /\ call = NoCall
    /\ paused = FALSE
    /\ pc = "none"

NotSimulating ==
    UNCHANGED <<previous, current, failure, args, seed, ticks, seeded, cleared,
                paused, pc>>

\* get_offset(position, offset, cells) for a position of a dimension.
CallGetOffset ==
    /\ call = NoCall
    /\ \E cells \in 1 .. MaxCells :
          \E position \in 0 .. cells - 1, offset \in {-1, 0, 1} :
             call' = [fn |-> "get_offset", position |-> position,
                      offset |-> offset, cells |-> cells,
                      ret |-> get_offset(position, offset, cells)]
    /\ NotSimulating

\* get_neighbor_cells(cell, shape) for a cell of a shape.
CallGetNeighborCells ==
    /\ call = NoCall
    /\ \E rows \in 1 .. MaxCells, columns \in 1 .. MaxCells :
          \E cell \in Cells(rows, columns) :
             call' = [fn |-> "get_neighbor_cells", cell |-> cell,
                      shape |-> <<rows, columns>>,
                      ret |-> get_neighbor_cells(cell, <<rows, columns>>)]
    /\ NotSimulating

\* matrix.get_next_state(cell) for a cell of a matrix of any content.
CallGetNextState ==
    /\ call = NoCall
    /\ \E s \in Shapes :
          \E data \in [Cells(s[1], s[2]) -> CellState], cell \in Cells(s[1], s[2]) :
             LET matrix == [rows |-> s[1], columns |-> s[2], data |-> data]
             IN call' = [fn |-> "get_next_state", matrix |-> matrix, cell |-> cell,
                         ret |-> get_next_state(matrix, cell)]
    /\ NotSimulating

\* The two grids of test_internal_top_left_neighbor_alive: 6x6 with (0,0),
\* respectively (0,1), Alive.
TestMatrices ==
    {set_state(GameMatrix_new(6, 6), <<0, 0>>, "Alive"),
     set_state(GameMatrix_new(6, 6), <<0, 1>>, "Alive")}

\* get_alive_neighbor_count(matrix, cell) for a cell of a matrix of any
\* content, or of a grid of the test; used is the count get_next_state
\* takes for the same cell and next is what it returns.
CallGetAliveNeighborCount ==
    /\ call = NoCall
    /\ \E matrix \in
            {[rows |-> s[1], columns |-> s[2], data |-> d] :
                <<s, d>> \in UNION {{s} \X [Cells(s[1], s[2]) -> CellState] :
                                      s \in Shapes}}
            \cup TestMatrices :
          \E cell \in DOMAIN matrix.data :
             call' = [fn |-> "get_alive_neighbor_count", matrix |-> matrix,
                      cell |-> cell,
                      ret |-> get_alive_neighbor_count(matrix, cell),
                      used |-> count_alive(neighbor_states(matrix, cell)),
                      next |-> get_next_state(matrix, cell)]
    /\ NotSimulating

\* The call has returned and its record is dropped.
Return ==
    /\ call # NoCall
    /\ call' = NoCall
    /\ NotSimulating

NextPure ==
    \/ CallGetOffset
    \/ CallGetNeighborCells
    \/ CallGetNextState
    \/ Return

SpecPure == InitPure /\ [][NextPure]_vars

\* ------------------------------------- the test's counter: SpecCount
NextCount == CallGetAliveNeighborCount \/ Return

SpecCount == InitPure /\ [][NextCount]_vars

\* ------------------------------------------- the still life: SpecBlock
InitBlock ==
    \E rows \in 4 .. MaxBlockRows, columns \in 4 .. MaxBlockColumns :
        LET game == GameOfLife_new(rows, columns)
        IN /\ previous = game.previous
           /\ current = game.current
           /\ failure = "none"
           /\ args = <<rows, columns>>
           /\ seed = game.current
           /\ ticks = 0
           /\ seeded = FALSE
           /\ cleared = FALSE
           /\ call = NoCall
           /\ paused = FALSE
           /\ pc = "none"

\* The seeding collaborator sets the four cells of a 2x2 block whose top
\* left corner is any cell; the block's second row and column are the next
\* ones around the torus.
SeedBlock ==
    /\ failure = "none"
    /\ ticks = 0
    /\ ~seeded
    /\ \E cell \in DOMAIN current.data :
          LET row2 == (cell[1] + 1) % current.rows
              column2 == (cell[2] + 1) % current.columns
              s1 == set_state(current, cell, "Alive")
              s2 == set_state(s1, <<cell[1], column2>>, "Alive")
              s3 == set_state(s2, <<row2, cell[2]>>, "Alive")
              s4 == set_state(s3, <<row2, column2>>, "Alive")
          IN /\ current' = s4
             /\ seed' = s4
    /\ seeded' = TRUE
    /\ UNCHANGED <<previous, failure, args, ticks, cleared, call, paused, pc>>

NextBlock == SeedBlock \/ Tick

SpecBlock == InitBlock /\ [][NextBlock]_vars

\* ------------------------------------------------------ reference notions
\* The eight offset pairs around a cell.
OffsetPairs == ({-1, 0, 1} \X {-1, 0, 1}) \ {<<0, 0>>}

\* The number of offset pairs whose cell, taken around the torus, is Alive.
AliveAround(matrix, cell) ==
    Cardinality({d \in OffsetPairs :
        matrix.data[<<(cell[1] + d[1]) % matrix.rows,
                      (cell[2] + d[2]) % matrix.columns>>] = "Alive"})

\* The rule B3/S23.
B3S23(own, n) ==
    IF own = "Alive" THEN (IF n = 2 \/ n = 3 THEN "Alive" ELSE "Dead")
    ELSE (IF n = 3 THEN "Alive" ELSE "Dead")

\* The generation after that of a matrix, all cells at once.
NextGeneration(matrix) ==
    [matrix EXCEPT !.data = [cell \in DOMAIN matrix.data |->
                                B3S23(matrix.data[cell], AliveAround(matrix, cell))]]

RECURSIVE Generation(_, _)
Generation(matrix, n) ==
    IF n = 0 THEN matrix ELSE NextGeneration(Generation(matrix, n - 1))

AllDead(matrix) == \A cell \in DOMAIN matrix.data : matrix.data[cell] = "Dead"

AliveCells(matrix) == {cell \in DOMAIN matrix.data : matrix.data[cell] = "Alive"}

\* ------------------------------------------------------------------ claims
\* C1: after n >= 1 ticks from a seed with no other mutation, on a shape with
\* rows, columns >= 1, current is generation n of the seed and previous is
\* generation n - 1, cell by cell; so after each tick previous is what
\* current was before it, current is the rule applied to that content, and
\* nothing of generation n - 2 survives.
C1_TickAdvancesGeneration ==
    (ticks >= 1 /\ args[1] >= 1 /\ args[2] >= 1) =>
        /\ current = Generation(seed, ticks)
        /\ previous = Generation(seed, ticks - 1)

\* Two ticks on a grid of at least two rows and columns whose three
\* generations differ pairwise and whose second generation still has Alive
\* cells.
C1_Witness ==
    /\ ticks = 2
    /\ args[1] >= 2 /\ args[2] >= 2
    /\ current # previous
    /\ previous # seed
    /\ current # seed
    /\ AliveCells(current) # {}

\* C2: get_next_state is B3/S23 on the matrix's content: an Alive cell with 2
\* or 3 Alive neighbors yields Alive and with any other count Dead; a Dead
\* cell with exactly 3 yields Alive and with any other count Dead.
C2_RuleIsB3S23 ==
    call.fn = "get_next_state" =>
        LET own == call.matrix.data[call.cell]
            n == AliveAround(call.matrix, call.cell)
        IN /\ (own = "Alive" /\ n \in {2, 3}) => call.ret = "Alive"
           /\ (own = "Alive" /\ n \notin {2, 3}) => call.ret = "Dead"
           /\ (own = "Dead" /\ n = 3) => call.ret = "Alive"
           /\ (own = "Dead" /\ n # 3) => call.ret = "Dead"

\* A Dead cell of a 3x3 matrix with 4 Alive neighbors has been evaluated.
C2_Witness ==
    /\ call.fn = "get_next_state"
    /\ GameMatrix_shape(call.matrix) = <<3, 3>>
    /\ call.matrix.data[call.cell] = "Dead"
    /\ AliveAround(call.matrix, call.cell) = 4
    /\ call.ret = "Dead"

PairwiseDistinct(seq) ==
    \A i, j \in DOMAIN seq : i # j => seq[i] # seq[j]

AllWithin(seq, shape) ==
    \A i \in DOMAIN seq : seq[i] \in Cells(shape[1], shape[2])

\* C3 as stated: for every shape with R, C >= 1 and every cell of it,
\* get_neighbor_cells returns 8 coordinates, pairwise distinct, none the
\* cell itself, each within the shape.
C3_NeighborsDistinctForEveryShape ==
    call.fn = "get_neighbor_cells" =>
        /\ Len(call.ret) = 8
        /\ PairwiseDistinct(call.ret)
        /\ \A i \in DOMAIN call.ret : call.ret[i] # call.cell
        /\ AllWithin(call.ret, call.shape)

\* C3 (amended): for every shape with R, C >= 1 and every cell of it,
\* get_neighbor_cells returns 8 coordinates, each within the shape; none is
\* the cell itself when R, C >= 2, and they are pairwise distinct when
\* R, C >= 3.
C3_NeighborsDistinctFromThree ==
    call.fn = "get_neighbor_cells" =>
        /\ Len(call.ret) = 8
        /\ AllWithin(call.ret, call.shape)
        /\ (call.shape[1] >= 2 /\ call.shape[2] >= 2) =>
               \A i \in DOMAIN call.ret : call.ret[i] # call.cell
        /\ (call.shape[1] >= 3 /\ call.shape[2] >= 3) =>
               PairwiseDistinct(call.ret)

\* The neighbors of a corner of the smallest shape with distinct neighbors.
C3_Witness ==
    /\ call.fn = "get_neighbor_cells"
    /\ call.shape = <<3, 3>>
    /\ call.cell = <<0, 0>>
    /\ Cardinality({call.ret[i] : i \in DOMAIN call.ret}) = 8

\* C4: get_neighbor_cells returns, in this order, (r-1,c-1), (r-1,c),
\* (r-1,c+1), (r,c-1), (r,c+1), (r+1,c-1), (r+1,c), (r+1,c+1), each taken
\* modulo (R, C); for (0,0) in (10,10) that is (9,9), (9,0), (9,1), (0,9),
\* (0,1), (1,9), (1,0), (1,1).
C4_NeighborOrder ==
    call.fn = "get_neighbor_cells" =>
        LET r == call.cell[1]
            c == call.cell[2]
            R == call.shape[1]
            C == call.shape[2]
        IN /\ call.ret = << <<(r - 1) % R, (c - 1) % C>>,
                            <<(r - 1) % R, c % C>>,
                            <<(r - 1) % R, (c + 1) % C>>,
                            <<r % R, (c - 1) % C>>,
                            <<r % R, (c + 1) % C>>,
                            <<(r + 1) % R, (c - 1) % C>>,
                            <<(r + 1) % R, c % C>>,
                            <<(r + 1) % R, (c + 1) % C>> >>
           /\ (call.cell = <<0, 0>> /\ call.shape = <<10, 10>>) =>
                 call.ret = << <<9, 9>>, <<9, 0>>, <<9, 1>>, <<0, 9>>,
                               <<0, 1>>, <<1, 9>>, <<1, 0>>, <<1, 1>> >>

\* The call of the repository's test: the neighbors of (0,0) in (10,10).
C4_Witness ==
    /\ call.fn = "get_neighbor_cells"
    /\ call.cell = <<0, 0>>
    /\ call.shape = <<10, 10>>
    /\ call.ret[1] = <<9, 9>>

\* C5: for every dimension n >= 1, position in [0, n) and offset in
\* {-1, 0, 1}, get_offset returns the non-negative residue of
\* position + offset modulo n, which lies in [0, n); get_offset(0,-1,10) = 9,
\* get_offset(0,1,10) = 1, get_offset(5,-1,10) = 4.
C5_OffsetIsResidue ==
    call.fn = "get_offset" =>
        /\ call.ret \in 0 .. call.cells - 1
        /\ \E q \in {-1, 0, 1} :
              call.position + call.offset = q * call.cells + call.ret
        /\ (call.position = 0 /\ call.offset = -1 /\ call.cells = 10) => call.ret = 9
        /\ (call.position = 0 /\ call.offset = 1 /\ call.cells = 10) => call.ret = 1
        /\ (call.position = 5 /\ call.offset = -1 /\ call.cells = 10) => call.ret = 4

\* The wrap below zero of the repository's test: get_offset(0, -1, 10).
C5_Witness ==
    /\ call.fn = "get_offset"
    /\ call.position = 0
    /\ call.offset = -1
    /\ call.cells = 10
    /\ call.ret = 9

\* C6: a simulation of any shape that was never seeded is all Dead in both
\* buffers after any number of ticks.
C6_UnseededStaysDead ==
    ~seeded => (AllDead(current) /\ AllDead(previous))

\* Two ticks of a fresh, never seeded 3x3 simulation.
C6_Witness ==
    /\ ~seeded
    /\ ~cleared
    /\ ticks >= 2
    /\ args = <<3, 3>>

\* C7: kill_em_all leaves every cell of both buffers Dead, and they stay
\* Dead through any number of ticks made with no set_state in between.
C7_ClearedStaysDead ==
    cleared => (AllDead(current) /\ AllDead(previous))

\* Two ticks after a kill_em_all of a seeded 3x3 simulation.
C7_Witness ==
    /\ cleared
    /\ seeded
    /\ ticks >= 2
    /\ args = <<3, 3>>

\* C8: a 2x2 block of Alive cells at any position of a grid with rows,
\* columns >= 4, all other cells Dead, is unchanged by any number of ticks.
C8_BlockIsStill ==
    seeded => (current = seed /\ (ticks >= 1 => previous = seed))

\* Two ticks of a block that straddles both wrap-around edges: its top left
\* corner is the last cell of the grid.
C8_Witness ==
    /\ seeded
    /\ ticks >= 2
    /\ args[1] >= 4 /\ args[2] >= 4
    /\ AliveCells(seed) = {<<args[1] - 1, args[2] - 1>>, <<args[1] - 1, 0>>,
                           <<0, args[2] - 1>>, <<0, 0>>}
    /\ AliveCells(current) = AliveCells(seed)

\* C9 as stated: a construction with rows = 0 or columns = 0 fails with
\* InvalidDimensions, and no tick runs on a zero-sized grid.
C9_ZeroDimensionsRejected ==
    (args[1] = 0 \/ args[2] = 0) =>
        (failure = "InvalidDimensions" /\ ticks = 0)

\* C10: in every reachable state previous and current have the same shape,
\* the one given at construction, which shape() returns.
C10_ShapeIsFixed ==
    /\ GameMatrix_shape(previous) = GameMatrix_shape(current)
    /\ GameOfLife_shape(Self) = args
    /\ DOMAIN previous.data = Cells(args[1], args[2])
    /\ DOMAIN current.data = Cells(args[1], args[2])

\* A seeded, non-square simulation whose seed has been ticked into
\* previous.
C10_Witness ==
    /\ args = <<2, 4>>
    /\ seeded
    /\ ticks >= 1
    /\ AliveCells(previous) # {}
    /\ GameOfLife_shape(Self) = <<2, 4>>

\* C11: on a simulation constructed with rows, columns >= 1 tick() never
\* fails: no tick has panicked, and every cell of the loop and every wrapped
\* neighbor of it lies within [0, rows) x [0, columns) of both buffers.
C11_TickNeverPanics ==
    (args[1] >= 1 /\ args[2] >= 1) =>
        /\ failure = "none"
        /\ \A cell \in Cells(args[1], args[2]) :
              /\ InRange(previous, cell)
              /\ InRange(current, cell)
              /\ AllWithin(get_neighbor_cells(cell, GameMatrix_shape(previous)),
                           GameMatrix_shape(previous))

\* Two ticks of a seeded 3x3 simulation with Alive cells in two opposite
\* corners, whose neighbors wrap around both edges.
C11_Witness ==
    /\ args = <<3, 3>>
    /\ ticks >= 2
    /\ failure = "none"
    /\ current.data[<<0, 0>>] = "Alive"
    /\ current.data[<<2, 2>>] = "Alive"

\* --------------------------------------- the cell accessors: SpecAccess
\* A simulation of any content in both buffers, as current_mut() and
\* previous_mut() with set_state can make it.
InitAccess ==
    \E s \in AccessShapes :
        \E p \in [Cells(s[1], s[2]) -> CellState],
           c \in [Cells(s[1], s[2]) -> CellState] :
            /\ previous = [rows |-> s[1], columns |-> s[2], data |-> p]
            /\ current = [rows |-> s[1], columns |-> s[2], data |-> c]
            /\ failure = "none"
            /\ args = s
            /\ seed = current
            /\ ticks = 0
            /\ seeded = TRUE
            /\ cleared = FALSE
            /\ call = NoCall
            /\ paused = FALSE
            /\ pc = "none"

\* game.previous().get_state(cell) or game.current().get_state(cell), with
\* any coordinates.
GetState ==
    /\ failure = "none"
    /\ call = NoCall
    /\ \E buffer \in {"previous", "current"},
          cell \in (0 .. MaxAccessCells) \X (0 .. MaxAccessCells) :
          \E ret \in {get_state(IF buffer = "previous" THEN previous ELSE current,
                                cell)} :
             /\ call' = [fn |-> "get_state", buffer |-> buffer, cell |-> cell,
                         ret |-> ret, times |-> 1]
             /\ failure' = IF ret = "Panic" THEN "index out of bounds" ELSE failure
    /\ UNCHANGED <<previous, current, args, seed, ticks, seeded, cleared,
                   paused, pc>>

GetNextState_in_place ==
    /\ failure = "none"
    /\ call = NoCall
    /\ \E buffer \in {"previous", "current"}, cell \in DOMAIN current.data :
          \E ret \in {get_next_state(IF buffer = "previous" THEN previous
                                      ELSE current, cell)} :
             /\ call' = [fn |-> "get_next_state", buffer |-> buffer,
                         cell |-> cell, ret |-> ret, times |-> 1]
             /\ previous' = IF buffer = "previous"
                            THEN set_state(previous, cell, ret) ELSE previous
             /\ current' = IF buffer = "current"
                           THEN set_state(current, cell, ret) ELSE current
    /\ UNCHANGED <<failure, args, seed, ticks, seeded, cleared, paused, pc>>

\* game.previous().get_next_state(cell) or game.current().get_next_state(cell)
\* for a cell of the grid: it takes &self and writes nothing.
GetNextState ==
    /\ failure = "none"
    /\ call = NoCall
    /\ \E buffer \in {"previous", "current"}, cell \in DOMAIN current.data :
          call' = [fn |-> "get_next_state", buffer |-> buffer, cell |-> cell,
                   ret |-> get_next_state(IF buffer = "previous" THEN previous
                                          ELSE current, cell),
                   times |-> 1]
    /\ UNCHANGED <<previous, current, failure, args, seed, ticks, seeded,
                   cleared, paused, pc>>

\* The same observer is called again with the same arguments, nothing
\* having been written in between.
ObserveAgain ==
    /\ failure = "none"
    /\ call.fn \in {"get_state", "get_next_state"}
    /\ call.times < MaxRepeats
    /\ \E matrix \in {IF call.buffer = "previous" THEN previous ELSE current} :
          call' = [call EXCEPT
                      !.ret = IF call.fn = "get_state"
                              THEN get_state(matrix, call.cell)
                              ELSE get_next_state(matrix, call.cell),
                      !.times = call.times + 1]
    /\ UNCHANGED <<previous, current, failure, args, seed, ticks, seeded,
                   cleared, paused, pc>>

SetStateAt_on_previous ==
    /\ failure = "none"
    /\ call = NoCall
    /\ \E cell \in (0 .. MaxAccessCells) \X (0 .. MaxAccessCells),
          state \in CellState :
          /\ call' = [fn |-> "set_state", cell |-> cell, state |-> state]
          /\ IF InRange(previous, cell)
             THEN previous' = set_state(previous, cell, state) /\ failure' = failure
             ELSE previous' = previous /\ failure' = "index out of bounds"
    /\ UNCHANGED <<current, seed, args, ticks, seeded, cleared, paused, pc>>

\* game.current_mut().set_state(cell, state), with any coordinates: the
\* index panics before anything is written.
SetStateAt ==
    /\ failure = "none"
    /\ call = NoCall
    /\ \E cell \in (0 .. MaxAccessCells) \X (0 .. MaxAccessCells),
          state \in CellState :
          /\ call' = [fn |-> "set_state", cell |-> cell, state |-> state]
          /\ IF InRange(current, cell)
             THEN current' = set_state(current, cell, state) /\ failure' = failure
             ELSE current' = current /\ failure' = "index out of bounds"
    /\ seed' = current'
    /\ UNCHANGED <<previous, args, ticks, seeded, cleared, paused, pc>>

NextAccess ==
    GetState \/ GetNextState \/ ObserveAgain \/ SetStateAt \/ Return

SpecAccess == InitAccess /\ [][NextAccess]_vars

\* ------------------------------------------------ paired ticks: SpecTwin
\* game.tick() on the simulation and on a twin of the same shape and the
\* same current content, whatever the twin's previous buffer holds; the
\* call record keeps both results.
CallTickPair ==
    /\ call = NoCall
    /\ \E ra \in {tick(Self)}, p2 \in [DOMAIN previous.data -> CellState] :
          \E b \in {[previous |-> [previous EXCEPT !.data = p2],
                     current |-> current]} :
             call' = [fn |-> "tick_pair", a |-> Self, b |-> b,
                      ra |-> ra, rb |-> tick(b)]
    /\ NotSimulating

NextTwin == CallTickPair \/ Return

SpecTwin == InitAccess /\ [][NextTwin]_vars

\* C12: get_state and set_state called with a row >= rows or a column >=
\* columns panic instead of wrapping, and the failing call leaves every cell
\* of both buffers unchanged.
C12_AccessDoesNotWrap ==
    [][(/\ call = NoCall
        /\ call'.fn \in {"get_state", "set_state"}
        /\ (call'.cell[1] >= args[1] \/ call'.cell[2] >= args[2]))
       => (/\ failure' = "index out of bounds"
           /\ current' = current
           /\ previous' = previous
           /\ call'.fn = "get_state" => call'.ret = "Panic")]_vars

\* set_state(Alive) on the row just past the last one, which modulo the
\* rows would be the Dead cell (0, 0), has panicked and left it Dead.
C12_Witness ==
    /\ call.fn = "set_state"
    /\ call.cell = <<args[1], 0>>
    /\ call.state = "Alive"
    /\ failure = "index out of bounds"
    /\ current.data[<<0, 0>>] = "Dead"
    /\ args = <<2, 2>>

\* C13: two simulations of the same shape whose current buffers are equal
\* cell by cell, whatever their previous buffers contain, have equal current
\* and equal previous buffers after each executes one tick().
C13_TickDependsOnCurrentOnly ==
    call.fn = "tick_pair" =>
        /\ call.ra.current = call.rb.current
        /\ call.ra.previous = call.rb.previous
        /\ call.ra.failure = call.rb.failure

\* Two simulations with different, not all Dead previous buffers have
\* ticked into a new, not all Dead generation.
C13_Witness ==
    /\ call.fn = "tick_pair"
    /\ call.a.previous # call.b.previous
    /\ AliveCells(call.a.previous) # {}
    /\ AliveCells(call.b.previous) # {}
    /\ AliveCells(call.ra.current) # {}
    /\ call.ra.current # call.a.current
    /\ call.ra.current # call.a.previous

\* C14: a call of get_state or get_next_state for an in-range cell, the
\* first or a repeated one, changes no cell of either buffer, and a repeated
\* call with the same cell returns what the call before it returned.
C14_ObserversArePure ==
    [][(/\ call'.fn \in {"get_state", "get_next_state"}
        /\ call'.cell \in Cells(args[1], args[2]))
       => (/\ failure' = "none"
           /\ current' = current
           /\ previous' = previous
           /\ call'.times > 1 =>
                 (/\ call.fn = call'.fn
                  /\ call.cell = call'.cell
                  /\ call.buffer = call'.buffer
                  /\ call'.ret = call.ret))]_vars

\* get_next_state has twice told that a Dead cell of current becomes Alive:
\* writing the answer into the grid would have changed the cell.
C14_Witness ==
    /\ call.fn = "get_next_state"
    /\ call.buffer = "current"
    /\ call.times = 2
    /\ call.ret = "Alive"
    /\ current.data[call.cell] = "Dead"

\* ------------------------------------- tick() cell by cell: SpecSteps
\* The k-th cell of the two loops of tick(), row by row.
LoopCell(k, columns) == <<k \div columns, k % columns>>

\* swap(&mut self.previous, &mut self.current), entering the loops.
TickSwap ==
    /\ failure = "none"
    /\ call = NoCall
    /\ ticks < MaxTicks
    /\ previous' = current
    /\ current' = previous
    /\ call' = [fn |-> "tick", k |-> 0, before |-> Self]
    /\ ticks' = ticks + 1
    /\ UNCHANGED <<failure, args, seed, seeded, cleared, paused, pc>>

\* One pass of the inner loop's body.
TickStep ==
    /\ failure = "none"
    /\ call.fn = "tick"
    /\ call.k < current.rows * current.columns
    /\ \E cell \in {LoopCell(call.k, current.columns)} :
          \E r \in {tick_cell([previous |-> previous, current |-> current,
                               failure |-> failure],
                              cell, get_next_state(previous, cell))} :
             /\ previous' = r.previous
             /\ current' = r.current
             /\ failure' = r.failure
    /\ call' = [call EXCEPT !.k = call.k + 1]
    /\ UNCHANGED <<args, seed, ticks, seeded, cleared, paused, pc>>

\* Both loops are over and tick() returns.
TickReturn ==
    /\ failure = "none"
    /\ call.fn = "tick"
    /\ call.k = current.rows * current.columns
    /\ call' = NoCall
    /\ UNCHANGED <<previous, current, failure, args, seed, ticks, seeded, cleared,
                   paused, pc>>

NextSteps == SetState \/ TickSwap \/ TickStep \/ TickReturn

SpecSteps == Init /\ [][NextSteps]_vars

\* C15: at every point of the cell loop of a tick(), the buffer held as
\* previous is the pre-tick current, unchanged; the cells already visited
\* hold in current the rule applied to that content, and the cells not yet
\* visited still hold what the other buffer held before the tick: every write
\* went to current, and every next state was computed from unwritten content.
C15_PreviousFrozenDuringTick ==
    call.fn = "tick" =>
        /\ previous = call.before.current
        /\ \A cell \in DOMAIN current.data :
              current.data[cell] =
                 IF cell[1] * current.columns + cell[2] < call.k
                 THEN B3S23(call.before.current.data[cell],
                            AliveAround(call.before.current, cell))
                 ELSE call.before.previous.data[cell]

\* Half way through the second tick of a 3x3 grid: some cell already
\* written differs from the stale content it replaced, and the stale buffer
\* had Alive cells.
C15_Witness ==
    /\ call.fn = "tick"
    /\ args = <<3, 3>>
    /\ ticks = 2
    /\ call.k = 4
    /\ AliveCells(call.before.previous) # {}
    /\ \E cell \in DOMAIN current.data :
          /\ cell[1] * 3 + cell[2] < call.k
          /\ current.data[cell] # call.before.previous.data[cell]

\* ---------------------------------------------- the driver: SpecMain
\* What poll() and read() deliver in one call of check_commands.
Events == {"space", "q", "other", "none", "error"}

\* fn check_commands() -> Result<Option<Command>>
check_commands(event) ==
    CASE event = "space" -> "Paused"
      [] event = "q" -> "Quit"
      [] event = "error" -> "Err"
      [] OTHER -> "None"

main_cycle_stale_flag(self, flag, event) ==
    LET command == check_commands(event)
        toggled == IF command = "Paused" THEN ~flag ELSE flag
    IN IF command \notin {"Paused", "None"}
       THEN [game |-> [previous |-> self.previous, current |-> self.current,
                       failure |-> "none"],
             paused |-> toggled, pc |-> "done", ticked |-> FALSE]
       ELSE IF ~flag
       THEN [game |-> tick(self), paused |-> toggled, pc |-> "loop",
             ticked |-> TRUE]
       ELSE [game |-> [previous |-> self.previous, current |-> self.current,
                       failure |-> "none"],
             paused |-> toggled, pc |-> "loop", ticked |-> FALSE]

\* One pass of the loop of main: the match on check_commands(), then
\* render and game.tick() unless paused (render only reads the buffers, and
\* its result is dropped).
main_cycle(self, flag, event) ==
    LET command == check_commands(event)
        toggled == IF command = "Paused" THEN ~flag ELSE flag
    IN IF command \notin {"Paused", "None"}
       THEN [game |-> [previous |-> self.previous, current |-> self.current,
                       failure |-> "none"],
             paused |-> toggled, pc |-> "done", ticked |-> FALSE]
       ELSE IF ~toggled
       THEN [game |-> tick(self), paused |-> toggled, pc |-> "loop",
             ticked |-> TRUE]
       ELSE [game |-> [previous |-> self.previous, current |-> self.current,
                       failure |-> "none"],
             paused |-> toggled, pc |-> "loop", ticked |-> FALSE]

\* crossterm::terminal::size(): any size, zero included, of at most
\* MaxMainCells cells.
TerminalSizes == {s \in Shapes : s[1] * s[2] <= MaxMainCells}

\* main up to its seeding loop: the game has the size of the terminal.
InitMain ==
    \E s \in TerminalSizes :
        LET game == GameOfLife_new(s[1], s[2])
        IN /\ previous = game.previous
           /\ current = game.current
           /\ failure = "none"
           /\ args = s
           /\ seed = game.current
           /\ ticks = 0
           /\ seeded = FALSE
           /\ cleared = FALSE
           /\ call = NoCall
           /\ paused = FALSE
           /\ pc = "seed"

\* The seeding loop: every cell whose random byte is a multiple of sparcity
\* is set Alive; then enable_raw_mode()?, which ends main when it fails.
MainSeed ==
    /\ pc = "seed"
    /\ \E alive \in SUBSET DOMAIN current.data :
          /\ current' = [current EXCEPT !.data =
                            [cell \in DOMAIN current.data |->
                                IF cell \in alive
                                THEN get_state(set_state(current, cell, "Alive"), cell)
                                ELSE current.data[cell]]]
          /\ seed' = current'
    /\ seeded' = TRUE
    /\ \E raw_mode \in {"ok", "error"} :
          pc' = IF raw_mode = "ok" THEN "loop" ELSE "done"
    /\ UNCHANGED <<previous, failure, args, ticks, cleared, call, paused>>

\* One pass of the loop, for any event of the terminal.
MainCycle ==
    /\ pc = "loop"
    /\ failure = "none"
    /\ \E event \in Events :
          \E r \in {main_cycle(Self, paused, event)} :
             /\ r.ticked => ticks < MaxTicks
             /\ previous' = r.game.previous
             /\ current' = r.game.current
             /\ failure' = r.game.failure
             /\ paused' = r.paused
             /\ pc' = r.pc
             /\ ticks' = IF r.ticked THEN ticks + 1 ELSE ticks
             /\ call' = [fn |-> "check_commands", ret |-> check_commands(event)]
    /\ UNCHANGED <<args, seed, seeded, cleared>>

NextMain == MainSeed \/ MainCycle

SpecMain == InitMain /\ [][NextMain]_vars

\* C16: in the loop of main each Paused command toggles the flag and no
\* other command changes it; a cycle that ends with the flag true runs no
\* tick and leaves both buffers unchanged, and a tick runs only in a cycle
\* that ends with the flag false.
C16_NoTickWhilePaused ==
    [][pc = "loop" =>
         /\ call'.ret = "Paused" => paused' = ~paused
         /\ call'.ret # "Paused" => paused' = paused
         /\ paused' => (current' = current /\ previous' = previous /\ ticks' = ticks)
         /\ ticks' # ticks => ~paused']_vars

\* A paused simulation with Alive cells that ticked before the pause and
\* has just seen a cycle without a command.
C16_Witness ==
    /\ pc = "loop"
    /\ paused
    /\ ticks >= 1
    /\ call.fn = "check_commands"
    /\ call.ret = "None"
    /\ AliveCells(current) # {}
    /\ current # previous

\* The cell an offset pair leads to around the torus of a matrix.
Around(matrix, cell, d) ==
    <<(cell[1] + d[1]) % matrix.rows, (cell[2] + d[2]) % matrix.columns>>

\* C17: get_alive_neighbor_count returns the count get_next_state uses for
\* the cell, so that the rule applied to it is what get_next_state returns;
\* on a grid with both dimensions >= 3 whose only Alive cell is one of the 8
\* neighbors of the cell the count is 1, as in the test for (1,1) on 6x6
\* with (0,0) or (0,1) Alive.
C17_HelperCountsAsRule ==
    call.fn = "get_alive_neighbor_count" =>
        /\ call.ret = call.used
        /\ call.next = B3S23(call.matrix.data[call.cell], call.ret)
        /\ (/\ call.matrix.rows >= 3
            /\ call.matrix.columns >= 3
            /\ \E d \in OffsetPairs :
                  AliveCells(call.matrix) = {Around(call.matrix, call.cell, d)})
           => call.ret = 1
        /\ (call.matrix \in TestMatrices /\ call.cell = <<1, 1>>) => call.ret = 1

\* The first assertion of the test: the count of (1,1) on the 6x6 grid
\* whose only Alive cell is (0,0).
C17_Witness ==
    /\ call.fn = "get_alive_neighbor_count"
    /\ GameMatrix_shape(call.matrix) = <<6, 6>>
    /\ AliveCells(call.matrix) = {<<0, 0>>}
    /\ call.cell = <<1, 1>>
    /\ call.ret = 1

\* C18: set_state(cell, state) with in-range coordinates on current_mut()
\* does not fail and changes exactly that cell of current: afterwards
\* get_state(cell) is the written state, every other cell of current is as
\* before and previous is unchanged.
C18_SetStateWritesOneCell ==
    [][(/\ call = NoCall
        /\ call'.fn = "set_state"
        /\ call'.cell \in Cells(args[1], args[2]))
       => (/\ failure' = "none"
           /\ get_state(current', call'.cell) = call'.state
           /\ GameMatrix_shape(current') = GameMatrix_shape(current)
           /\ \A other \in Cells(args[1], args[2]) \ {call'.cell} :
                 current'.data[other] = current.data[other]
           /\ previous' = previous)]_vars

\* set_state(Dead) has been written to one cell of a 2x2 grid whose other
\* three cells, and some cell of previous, are Alive.
C18_Witness ==
    /\ call.fn = "set_state"
    /\ args = <<2, 2>>
    /\ call.cell = <<1, 0>>
    /\ call.state = "Dead"
    /\ failure = "none"
    /\ AliveCells(current) = Cells(2, 2) \ {<<1, 0>>}
    /\ AliveCells(previous) # {}
    /\ previous # current

\* The number of offset pairs that lead from a cell to the cell x.
Multiplicity(matrix, cell, x) ==
    Cardinality({d \in OffsetPairs : Around(matrix, cell, d) = x})

RECURSIVE SumOfMultiplicities(_, _, _)
SumOfMultiplicities(matrix, cell, xs) ==
    IF xs = {} THEN 0
    ELSE LET x == CHOOSE y \in xs : TRUE
         IN Multiplicity(matrix, cell, x)
            + SumOfMultiplicities(matrix, cell, xs \ {x})

\* C19: the count get_next_state takes for a cell is the sum, over the Alive
\* cells, of the number of offset pairs that wrap onto each, the cell itself
\* included; so on a 1x1 grid an Alive cell sees 8, and a 1x1 grid is all
\* Dead after one tick.
C19_CountHasMultiplicity ==
    /\ \A cell \in DOMAIN current.data :
          count_alive(neighbor_states(current, cell)) =
              SumOfMultiplicities(current, cell, AliveCells(current))
    /\ (args = <<1, 1>> /\ current.data[<<0, 0>>] = "Alive") =>
          count_alive(neighbor_states(current, <<0, 0>>)) = 8
    /\ (args = <<1, 1>> /\ ticks >= 1) => AllDead(current)

\* An Alive 1x1 grid, whose cell counted itself 8 times, has ticked to Dead.
C19_Witness ==
    /\ args = <<1, 1>>
    /\ ticks = 1
    /\ seed.data[<<0, 0>>] = "Alive"
    /\ previous.data[<<0, 0>>] = "Alive"
    /\ count_alive(neighbor_states(previous, <<0, 0>>)) = 8
    /\ current.data[<<0, 0>>] = "Dead"

\* ------------------------------------------- translated grids: SpecShift
\* A matrix moved by (dr, dc) around the torus: the content of cell lands in
\* cell + (dr, dc).
Shift(matrix, shift) ==
    [matrix EXCEPT !.data =
        [cell \in DOMAIN matrix.data |->
            matrix.data[<<(cell[1] - shift[1]) % matrix.rows,
                          (cell[2] - shift[2]) % matrix.columns>>]]]

\* A fresh simulation seeded with any content.
InitShift ==
    \E s \in Shapes \cap ((1 .. MaxGridCells) \X (1 .. MaxGridCells)) :
        \E c \in [Cells(s[1], s[2]) -> CellState] :
            /\ previous = GameMatrix_new(s[1], s[2])
            /\ current = [rows |-> s[1], columns |-> s[2], data |-> c]
            /\ failure = "none"
            /\ args = s
            /\ seed = current
            /\ ticks = 0
            /\ seeded = TRUE
            /\ cleared = FALSE
            /\ call = NoCall
            /\ paused = FALSE
            /\ pc = "none"

\* game.tick() on the simulation and on one seeded with the same content
\* moved by a shift; the call record keeps both results.
CallTickShifted ==
    /\ call = NoCall
    /\ \E ticked \in {tick(Self)}, shift \in DOMAIN current.data :
          \E moved \in {[previous |-> previous, current |-> Shift(current, shift)]} :
             call' = [fn |-> "tick_shift", shift |-> shift,
                      ticked |-> ticked, moved_ticked |-> tick(moved)]
    /\ NotSimulating

NextShift == CallTickShifted \/ Return

SpecShift == InitShift /\ [][NextShift]_vars

\* C20: for every shape with rows, columns >= 1, every content G and every
\* shift (dr, dc), ticking G moved by the shift gives the same current as
\* moving the ticked G by the shift, and neither tick fails.
C20_TickCommutesWithShift ==
    call.fn = "tick_shift" =>
        /\ call.moved_ticked.current = Shift(call.ticked.current, call.shift)
        /\ call.moved_ticked.failure = "none"
        /\ call.ticked.failure = "none"

\* A shift across both edges of a grid of at least two rows and columns
\* whose content changes under the tick, stays partly Alive and is not
\* invariant under the shift.
C20_Witness ==
    /\ call.fn = "tick_shift"
    /\ args[1] >= 2 /\ args[2] >= 2
    /\ call.shift[1] >= 1 /\ call.shift[2] >= 1
    /\ Shift(current, call.shift) # current
    /\ call.ticked.current # current
    /\ AliveCells(call.ticked.current) # {}
    /\ Shift(call.ticked.current, call.shift) # call.ticked.current

====
